---- MODULE Spec2Model ----
(***************************************************************************)
(* State-machine model of tiny-browser's fetch engine                      *)
(* (src/browser_engine/tiny_browser.py): the connection pool, the response *)
(* cache, one HTTP round trip (URL._http_request) and the redirect loop of *)
(* URL.fetch.  The peer (connect / send / response bytes) and the wall     *)
(* clock are the environment: every outcome the sockets can produce is a   *)
(* nondeterministic input of the step that performs the I/O.               *)
(***************************************************************************)
EXTENDS Integers, Sequences, FiniteSets, TLC

VARIABLES
    raw_url,          \* URL.raw_url: <<>> is None, else <<prefix..., base url>>
    pool,             \* ConnectionPool.pool: authority -> socket id
    socks,            \* every socket object created: id -> [auth, open]
    store,            \* SimpleCache.store: url -> [body, stored, max_age]
    clock,            \* time.time()
    pc,               \* position of the fetch call: idle / check / transport
    view_source_mode, \* local of fetch
    url_to_fetch,     \* local of fetch
    redirects,        \* local of fetch
    out,              \* how the last fetch call ended: [ret, fault, err]
    shown,            \* what the last fetch call printed as page text
    req,              \* history: the last _http_request call
    nreq,             \* history: _http_request calls made by the current fetch
    start,            \* history: cache entry of the fetched url when fetch began
    lookup,           \* history: the last SimpleCache.get call
    lastDone,         \* history: authority -> last completed response [sock, close]
    answers,          \* history: requests the peer "any" was reachable for
    peer,             \* which of the two bounded environments this run has
    wire,             \* decode_chunked: the bytes rfile has still to give
    decoded,          \* decode_chunked: body, the BytesIO written so far
    dpc,              \* decode_chunked: position (off/size/crlf/trailer/done/fault)
    orig,             \* history: the byte sequence that was chunk-encoded
    short,            \* history: a read(2) came back with one byte
    handled,          \* history: what the file / data handler gave the last fetch
    durl,             \* _handle_data_url: its argument, character by character
    argv,             \* main: sys.argv[1:]
    mpc,              \* main: position (off/start/try/finally/exited)
    renderer          \* Renderer: its fields, and pos (off/new/loaded/failed)

vars == <<raw_url, pool, socks, store, clock, pc, view_source_mode,
          url_to_fetch, redirects, out, shown, req, nreq, start, lookup,
          lastDone, answers, peer, wire, decoded, dpc, orig, short,
          handled, durl, argv, mpc, renderer>>

\* the state of a decode_chunked call
chunked == <<wire, decoded, dpc, orig, short>>

\* the state of a run of main
mainv == <<argv, mpc>>

\* the argument of a _handle_data_url call followed on its own
datav == <<durl>>

----------------------------------------------------------------------------
(* Bounds of the model *)

MaxTime == 2
MaxSockets == 2
MaxRequests == 2

(* Program constants *)

max_redirects == 10
DefaultHttpPort == 80
DefaultHttpsPort == 443

----------------------------------------------------------------------------
(* Values *)

None == <<>>
Some(x) == <<x>>

AbsentHdr == "<absent>"

HttpUrls == {"http://a/", "http://a/x", "https://b/"}

\* urlsplit(u).scheme / .hostname / .port of the urls of the model
UrlScheme(u) ==
    CASE u = "http://a/" -> "http"
      [] u = "http://a/x" -> "http"
      [] u = "https://b/" -> "https"
      [] u = "file:///test.html" -> "file"
      [] u = "data:,hi" -> "data"
      [] OTHER -> "view-source"

UrlHost(u) == IF u = "https://b/" THEN "b" ELSE "a"

\* port = parsed.port or (443 if scheme=="https" else 80): no url of the
\* model names a port
AuthorityOf(u) ==
    <<UrlScheme(u), UrlHost(u),
      IF UrlScheme(u) = "https" THEN DefaultHttpsPort ELSE DefaultHttpPort>>

Authorities == {AuthorityOf(u) : u \in HttpUrls}

\* urljoin(base, loc) for the Location values of the model: an absolute url
\* replaces the base, "/" keeps scheme and authority of the base, "" is the
\* base itself
UrlJoin(base, loc) ==
    IF loc \in HttpUrls THEN loc
    ELSE IF loc = "" THEN base
    ELSE IF base = "https://b/" THEN "https://b/" ELSE "http://a/"

\* str.lower() on the header values of the model
Lower(s) ==
    CASE s = "Close" -> "close"
      [] s = "CLOSE" -> "close"
      [] s = "Keep-Alive" -> "keep-alive"
      [] s = "GZIP" -> "gzip"
      [] s = "Chunked" -> "chunked"
      [] OTHER -> s

----------------------------------------------------------------------------
(* ConnectionPool *)

\* a pool that gives any socket it holds, whatever the key
PoolGet_AnyKey(p, auth) ==
    IF DOMAIN p # {} THEN p[CHOOSE a \in DOMAIN p : TRUE] ELSE 0

\* ConnectionPool.get: the stored socket, or 0 for None
PoolGet(p, auth) == IF auth \in DOMAIN p THEN p[auth] ELSE 0

\* a pool that forgets what it is given
PoolSet_Drop(p, auth, sock) == p

\* ConnectionPool.set: self.pool[key] = (sock, now()); the time stamp is
\* never read by the program and is left out
PoolSet(p, auth, sock) ==
    [a \in (DOMAIN p) \cup {auth} |-> IF a = auth THEN sock ELSE p[a]]

\* socket.close()
CloseSock(ss, s) == [ss EXCEPT ![s].open = FALSE]

\* a close_all that forgets the sockets without closing them
PoolCloseAll_Forget(p, ss) == [pool |-> <<>>, socks |-> ss]

\* ConnectionPool.close_all: close every stored socket, clear the pool
PoolCloseAll(p, ss) ==
    [pool |-> <<>>,
     socks |-> [i \in 1..Len(ss) |->
                  IF \E a \in DOMAIN p : p[a] = i
                  THEN [ss[i] EXCEPT !.open = FALSE] ELSE ss[i]]]

----------------------------------------------------------------------------
(* SimpleCache *)

\* the freshness test of SimpleCache.get
Fresh(now, stored, max_age) == (now - stored) <= max_age

\* a lookup that never finds anything
CacheGet_AlwaysMiss(st, url, now) == [body |-> None, store |-> st]

\* a lookup that treats an entry without max_age as expired
CacheGet_NoneExpires(st, url, now) ==
    IF url \in DOMAIN st /\ st[url].max_age # None
          /\ Fresh(now, st[url].stored, st[url].max_age[1])
    THEN [body |-> Some(st[url].body), store |-> st]
    ELSE [body |-> None,
          store |-> [u \in DOMAIN st \ {url} |-> st[u]]]

\* SimpleCache.get: [body |-> None or Some(body), store |-> the store after]
CacheGet(st, url, now) ==
    IF url \notin DOMAIN st THEN [body |-> None, store |-> st]
    ELSE LET v == st[url] IN
         IF v.max_age = None THEN [body |-> Some(v.body), store |-> st]
         ELSE IF Fresh(now, v.stored, v.max_age[1])
              THEN [body |-> Some(v.body), store |-> st]
              ELSE [body |-> None,
                    store |-> [k \in (DOMAIN st) \ {url} |-> st[k]]]

\* a cache that keeps every body under the url the engine was built with
CacheSet_UnderOrigin(st, url, body, max_age, now) ==
    [k \in (DOMAIN st) \cup {"http://a/"} |->
        IF k = "http://a/"
        THEN [body |-> body, stored |-> now, max_age |-> max_age]
        ELSE st[k]]

\* SimpleCache.set
CacheSet(st, url, body, max_age, now) ==
    [k \in (DOMAIN st) \cup {url} |->
        IF k = url THEN [body |-> body, stored |-> now, max_age |-> max_age]
        ELSE st[k]]

----------------------------------------------------------------------------
(* Cache-Control, as fetch reads it.  A header value is the sequence of its *)
(* comma separated parts, each already stripped.                            *)

\* "no-store" in p
PartHasNoStore(p) == p = "no-store"

\* "max-age" in p, and p.startswith("max-age"): the same for these parts
PartHasMaxAge(p) == p \in {"max-age=0", "max-age=1", "max-age=x", "max-age"}

\* p.split("=", 1) yields two fields
PartHasEq(p) == p \in {"max-age=0", "max-age=1", "max-age=x"}

\* int(val): None when int() raises
PartInt(p) ==
    CASE p = "max-age=0" -> Some(0)
      [] p = "max-age=1" -> Some(1)
      [] OTHER -> None

\* "no-store" in cc
CcNoStore(cc) == \E i \in 1..Len(cc) : PartHasNoStore(cc[i])

\* the for loop over the parts inside the try: an exception (no "=", or a
\* value int() rejects) ends the loop with max_age = None
RECURSIVE MaxAgeLoop(_, _, _)
MaxAgeLoop(cc, i, acc) ==
    IF i > Len(cc) THEN acc
    ELSE IF ~PartHasMaxAge(cc[i]) THEN MaxAgeLoop(cc, i + 1, acc)
    ELSE IF ~PartHasEq(cc[i]) \/ PartInt(cc[i]) = None THEN None
    ELSE MaxAgeLoop(cc, i + 1, PartInt(cc[i]))

CcMaxAge(cc) ==
    IF \E i \in 1..Len(cc) : PartHasMaxAge(cc[i])
    THEN MaxAgeLoop(cc, 1, None)
    ELSE None

\* a cache condition that ignores the status
Cacheable_AnyStatus(status, cc) == ~CcNoStore(cc)

\* the test that guards self.cache.set
Cacheable(status, cc) == status = 200 /\ ~CcNoStore(cc)

----------------------------------------------------------------------------
(* Content-Encoding *)

\* gzip.decompress / zlib.decompress(.., 16+MAX_WBITS): "gz_b2" is the gzip
\* container of "b2"; nothing else in the model is a gzip container
Gunzip(b) == IF b = "gz_b2" THEN Some("b2") ELSE None

\* the gzip / deflate block of _http_request: a failed decompression keeps
\* the bytes as received (no body of the model is a zlib stream)
Decompress(cenc, body) ==
    IF Lower(cenc) = "gzip"
    THEN (IF Gunzip(body) # None THEN Gunzip(body)[1] ELSE body)
    ELSE body

\* bytes.decode("utf8", errors="replace")
Utf8Decode(b) == [text |-> b]

\* server_conn == "close" or proxy-connection == "close"
WantsClose(conn, proxy) == Lower(conn) = "close" \/ Lower(proxy) = "close"

\* a hop limit that lets one more redirect through
TooManyRedirects_OneMore(r) == r > max_redirects + 1

\* redirects > self.max_redirects
TooManyRedirects(r) == r > max_redirects

\* 300 <= status_code < 400
IsRedirect(status) == 300 <= status /\ status < 400

\* a Location test that accepts the empty value
NoLocation_AbsentOnly(loc) == loc = AbsentHdr

\* not loc, for loc = headers.get("location")
NoLocation(loc) == loc \in {AbsentHdr, ""}

----------------------------------------------------------------------------
(* What the peer can do during one _http_request *)

\* a reader that takes any code field it cannot read for 200
StatusCode_Lenient(field) ==
    CASE field = "200" -> 200
      [] field = "301" -> 301
      [] field = "404" -> 404
      [] OTHER -> 200

\* int(parts[1]) of the status line, 0 when int() raises
StatusCode(field) ==
    CASE field = "200" -> 200
      [] field = "301" -> 301
      [] field = "404" -> 404
      [] OTHER -> 0

CodeFields == {"200", "404", "OK"}
RedirectFields == {"301"}

\* Location header values: absent, empty, relative, absolute
Locations == {AbsentHdr, "", "/"} \cup HttpUrls

\* <<Connection, Proxy-Connection>> header values
ConnHdrs == {<<"keep-alive", "">>, <<"Close", "">>, <<"", "close">>}

\* Cache-Control header values
CcValues == {<<>>, <<"no-store">>, <<"max-age=1">>}

\* <<body bytes on the wire, Content-Encoding>>
Payloads == {<<"b1", "">>, <<"gz_b2", "gzip">>, <<"b1", "gzip">>}

\* <<Transfer-Encoding, Content-Length>> header values
BodyHdrs ==
    {<<t, c>> : t \in {AbsentHdr, "chunked", "Chunked", "gzip"},
                c \in {AbsentHdr, "2", "x"}}

NoRead ==
    [k |-> "empty", code |-> "", loc |-> AbsentHdr, cc |-> <<>>, conn |-> "",
     proxy |-> "", body |-> "", cenc |-> "", te |-> AbsentHdr,
     cl |-> AbsentHdr]

\* reading the response gives nothing before the status line ("empty"), a
\* status line of one field ("bad"), a socket timeout, a chunked body whose
\* size line int(line, 16) rejects ("badchunk"), ...
BrokenReads ==
    {[NoRead EXCEPT !.k = x] : x \in {"empty", "bad", "timeout", "badchunk"}}

\* ... a 3xx response ...
RedirectReads(locs, hdrs, bhs) ==
    {[NoRead EXCEPT !.k = "resp", !.code = f, !.loc = l,
                    !.conn = c[1], !.proxy = c[2], !.te = h[1], !.cl = h[2]] :
        f \in RedirectFields, l \in locs, c \in hdrs, h \in bhs}

\* ... or another response
FinalReads(codes, ccs, hdrs, bhs) ==
    {[NoRead EXCEPT !.k = "resp", !.code = f, !.cc = cc, !.body = b[1],
                    !.cenc = b[2], !.conn = c[1], !.proxy = c[2],
                    !.te = h[1], !.cl = h[2]] :
        f \in codes, cc \in ccs, b \in Payloads, c \in hdrs, h \in bhs}

\* The bounded environments.  The peer "any" behaves in every way of the
\* model during MaxRequests requests and is unreachable from then on; the
\* peer "steady" keeps its connections alive and answers without bound, so
\* that the hop limit of fetch is what ends a chain of redirects.  Both give
\* the length of every body.  The peer "framed" answers without bound and
\* frames its bodies in every way of the model.
Peers == {"any", "steady", "framed"}

WithLength == {<<AbsentHdr, "2">>}

Reads ==
    IF peer = "steady"
    THEN RedirectReads(HttpUrls \cup {"/"}, {<<"keep-alive", "">>}, WithLength)
         \cup FinalReads({"200", "404"}, {<<>>}, {<<"keep-alive", "">>},
                         WithLength)
    ELSE IF peer = "framed"
    THEN RedirectReads({"/"}, ConnHdrs, BodyHdrs)
         \cup FinalReads({"200"}, {<<>>}, ConnHdrs, BodyHdrs)
    ELSE BrokenReads
         \cup RedirectReads(Locations, ConnHdrs, WithLength)
         \cup FinalReads(CodeFields, CcValues, ConnHdrs, WithLength)

\* whether a sendall on an open socket may fail
SendMayFail == peer = "any"

\* the peer "any" has become unreachable
Unreachable == peer = "any" /\ answers >= MaxRequests

\* create_socket outcomes towards an authority when n sockets exist: connect
\* raises ("refused": returns None), wrap_socket raises ("tls": the exception
\* leaves create_socket), or a socket comes back.  The model holds at most
\* MaxSockets sockets.
ConnOutcomes(auth, n) ==
    (IF peer = "any" \/ n >= MaxSockets THEN {"refused"} ELSE {})
    \cup (IF auth[1] = "https" /\ peer = "any" THEN {"tls"} ELSE {})
    \cup (IF n < MaxSockets THEN {"ok"} ELSE {})

NoEnv == [c1 |-> "-", s1 |-> TRUE, c2 |-> "-", s2 |-> TRUE, rd |-> NoRead]

\* the inputs of one _http_request(u): c1 the first create_socket (asked only
\* when the pool has no socket), s1 whether the first sendall succeeds (never
\* on a closed socket), c2 and s2 the same for the reconnect, rd the read
Reachable(u) ==
    LET auth == AuthorityOf(u)
        pooled == PoolGet(pool, auth)
        n == Len(socks)
        n1 == IF pooled # 0 THEN n ELSE n + 1
        firsts == IF pooled # 0 THEN {"-"} ELSE ConnOutcomes(auth, n)
        sendOk(c) == IF pooled # 0 THEN socks[pooled].open ELSE c = "ok"
        canSend(c) == pooled # 0 \/ c = "ok"
    IN  {[NoEnv EXCEPT !.c1 = c] : c \in {x \in firsts : ~canSend(x)}}
        \cup {[NoEnv EXCEPT !.c1 = c, !.rd = r] :
                c \in {x \in firsts : sendOk(x)}, r \in Reads}
        \cup {[NoEnv EXCEPT !.c1 = c, !.s1 = FALSE, !.c2 = d] :
                c \in {x \in firsts : canSend(x) /\ (SendMayFail \/ ~sendOk(x))},
                d \in ConnOutcomes(auth, n1) \ {"ok"}}
        \cup {[NoEnv EXCEPT !.c1 = c, !.s1 = FALSE, !.c2 = "ok", !.s2 = FALSE] :
                c \in {x \in firsts : canSend(x) /\ n1 < MaxSockets
                                        /\ SendMayFail}}
        \cup {[NoEnv EXCEPT !.c1 = c, !.s1 = FALSE, !.c2 = "ok", !.rd = r] :
                c \in {x \in firsts : canSend(x) /\ n1 < MaxSockets
                                        /\ (SendMayFail \/ ~sendOk(x))},
                r \in Reads}

\* an unreachable peer: connects are refused and sends fail
Down(u) ==
    IF PoolGet(pool, AuthorityOf(u)) = 0
    THEN {[NoEnv EXCEPT !.c1 = "refused"]}
    ELSE {[NoEnv EXCEPT !.s1 = FALSE, !.c2 = "refused"]}

EnvOf(u) == IF Unreachable THEN Down(u) ELSE Reachable(u)

----------------------------------------------------------------------------
(* URL._http_request *)

NoReq ==
    [url |-> "", pooled |-> 0, sent_on |-> 0, connects |-> 0, sends |-> 0,
     kind |-> "never", why |-> "", status |-> 0, loc |-> AbsentHdr,
     cc |-> <<>>, body |-> "", close |-> FALSE, framing |-> "",
     te |-> AbsentHdr, cl |-> AbsentHdr, code |-> "",
     prev |-> [sock |-> 0, close |-> FALSE]]

\* create_socket gave no socket: None is returned ("refused") or the
\* exception of wrap_socket propagates ("tls")
ConnectFailed(c, u, p, ss, pooled, connects, sends) ==
    [pool |-> p, socks |-> ss,
     r |-> [NoReq EXCEPT !.url = u, !.pooled = pooled, !.connects = connects,
                         !.sends = sends,
                         !.kind = IF c = "tls" THEN "fault" ELSE "none",
                         !.why = IF c = "tls" THEN "ssl error"
                                 ELSE "connect failed"]]

\* the reconnect's sendall raises, outside any try
RetrySendFailed(u, p, ss, pooled, connects) ==
    [pool |-> p, socks |-> ss,
     r |-> [NoReq EXCEPT !.url = u, !.pooled = pooled, !.connects = connects,
                         !.sends = 2, !.kind = "fault", !.why = "send failed"]]

\* int(headers_out["content-length"]) succeeds
IsInt(v) == v \in {"0", "2"}

\* a reader that looks at Content-Length first
Framing_LengthFirst(te, cl) ==
    IF cl # AbsentHdr /\ IsInt(cl) THEN "length"
    ELSE IF Lower(IF te = AbsentHdr THEN "" ELSE te) = "chunked" THEN "chunked"
    ELSE "eof"

\* how the body is read: by decode_chunked, by read_exact over the given
\* length, or by rfile.read() until the peer closes the stream
Framing(te, cl) ==
    IF Lower(IF te = AbsentHdr THEN "" ELSE te) = "chunked" THEN "chunked"
    ELSE IF cl # AbsentHdr /\ IsInt(cl) THEN "length"
    ELSE "eof"

\* the connection disposition at the end of _http_request
Dispose(p, ss, auth, sock, close) ==
    IF close THEN [pool |-> p, socks |-> CloseSock(ss, sock)]
    ELSE [pool |-> PoolSet(p, auth, sock), socks |-> ss]

\* a reader that answers a malformed response with what it has
ReadResponse_Lenient(rd, u, p, ss, pooled, sock, connects, sends) ==
    [pool |-> p, socks |-> ss,
     r |-> [NoReq EXCEPT !.url = u, !.pooled = pooled, !.sent_on = sock,
                         !.connects = connects, !.sends = sends,
                         !.kind = "resp", !.status = 200, !.body = "b1",
                         !.why = IF rd.k = "badchunk" THEN "Bad chunk size"
                                 ELSE IF rd.k = "bad" THEN "bad status line"
                                 ELSE IF rd.k = "empty" THEN "empty response"
                                 ELSE ""]]

\* from rfile = sock.makefile to the return
ReadResponse(rd, u, p, ss, pooled, sock, connects, sends) ==
    LET base == [NoReq EXCEPT !.url = u, !.pooled = pooled, !.sent_on = sock,
                              !.connects = connects, !.sends = sends]
    IN  IF rd.k = "empty"
        THEN [pool |-> p, socks |-> ss,
              r |-> [base EXCEPT !.kind = "none", !.why = "empty response"]]
        ELSE IF rd.k = "bad"
        THEN [pool |-> p, socks |-> ss,
              r |-> [base EXCEPT !.kind = "none", !.why = "bad status line"]]
        ELSE IF rd.k = "timeout"
        THEN [pool |-> p, socks |-> ss,
              r |-> [base EXCEPT !.kind = "fault", !.why = "timed out"]]
        ELSE IF rd.k = "badchunk"
        THEN [pool |-> p, socks |-> ss,
              r |-> [base EXCEPT !.kind = "fault", !.why = "Bad chunk size"]]
        ELSE LET close == WantsClose(rd.conn, rd.proxy)
                 d == Dispose(p, ss, AuthorityOf(u), sock, close)
             IN  [pool |-> d.pool, socks |-> d.socks,
                  r |-> [base EXCEPT !.kind = "resp",
                                     !.code = rd.code,
                                     !.status = StatusCode(rd.code),
                                     !.loc = rd.loc, !.cc = rd.cc,
                                     !.body = Decompress(rd.cenc, rd.body),
                                     !.framing = Framing(rd.te, rd.cl),
                                     !.te = rd.te, !.cl = rd.cl,
                                     !.close = close]]

\* the except branch of the first sendall: close the socket, create one more
RetrySend(e, u, p, ss, pooled, sock, connects) ==
    LET closed == CloseSock(ss, sock)
        fresh == Append(closed, [auth |-> AuthorityOf(u), open |-> TRUE])
    IN  IF e.c2 # "ok"
        THEN ConnectFailed(e.c2, u, p, closed, pooled, connects + 1, 1)
        ELSE IF ~e.s2
        THEN RetrySendFailed(u, p, fresh, pooled, connects + 1)
        ELSE ReadResponse(e.rd, u, p, fresh, pooled, Len(fresh),
                          connects + 1, 2)

\* _http_request(u) in pool p with sockets ss under the inputs e:
\* [pool, socks: the state after, r: what happened]
HttpRequest(u, e, p, ss) ==
    LET auth == AuthorityOf(u)
        pooled == PoolGet(p, auth)
        created == Append(ss, [auth |-> auth, open |-> TRUE])
    IN  IF pooled = 0 /\ e.c1 # "ok"
        THEN ConnectFailed(e.c1, u, p, ss, pooled, 1, 0)
        ELSE LET ss1 == IF pooled = 0 THEN created ELSE ss
                 sock == IF pooled = 0 THEN Len(created) ELSE pooled
                 connects == IF pooled = 0 THEN 1 ELSE 0
             IN  IF ss1[sock].open /\ e.s1
                 THEN ReadResponse(e.rd, u, p, ss1, pooled, sock, connects, 1)
                 ELSE RetrySend(e, u, p, ss1, pooled, sock, connects)

----------------------------------------------------------------------------
(* URL.fetch *)

DefaultFileUrl == "file:///test.html"

\* the urls an engine is constructed with: None, or an optional
\* "view-source:" prefix before the url proper
RawUrls ==
    {None, <<DefaultFileUrl>>, <<"view-source:", DefaultFileUrl>>,
     <<"data:,hi">>, <<"view-source:", "data:,hi">>,
     <<"http://a/">>, <<"view-source:", "http://a/">>}

\* a file handler that gives nothing for a file it cannot read
HandleFileUrl_Empty(u, readable) == IF readable THEN "f1" ELSE ""

\* _handle_file_url: the file's bytes, or the synthesized error page
HandleFileUrl(u, readable) == IF readable THEN "f1" ELSE "File error"

\* _handle_data_url on the data url of the model
HandleDataUrl(u) == IF u = "data:,hi" THEN "hi" ELSE ""

\* handled: which handler ran, whether the file could be read, the bytes
NoHandled == [by |-> "none", readable |-> FALSE, body |-> ""]

NoLookup == [url |-> "", t |-> 0, before |-> None, body |-> None, kept |-> FALSE]

Returned(x, msg) == [kind |-> "returned", ret |-> x, why |-> msg]
Raised(exc) == [kind |-> "fault", ret |-> None, why |-> exc]
Running == [kind |-> "running", ret |-> None, why |-> ""]

\* fetch up to the redirect loop: the None default, the view-source prefix,
\* the scheme dispatch, and the whole of the file and data branches
\* (a run of the model ends with the fetch call during which the peer "any"
\* becomes unreachable)
FetchBegin ==
    /\ pc = "idle"
    /\ ~Unreachable
    /\ LET raw1 == IF raw_url = None THEN <<DefaultFileUrl>> ELSE raw_url
           vsm == Head(raw1) = "view-source:"
           raw2 == IF vsm THEN Tail(raw1) ELSE raw1
           url == Head(raw2)
           scheme == UrlScheme(url)
       IN  /\ raw_url' = raw2
           /\ view_source_mode' = vsm
           /\ nreq' = 0
           /\ redirects' = 0
           /\ url_to_fetch' = url
           /\ start' = IF url \in DOMAIN store /\ store[url].max_age = None
                       THEN Some(store[url].body) ELSE None
           /\ IF scheme = "file"
              THEN \E readable \in BOOLEAN :
                     /\ handled' = [by |-> "file", readable |-> readable,
                                    body |-> HandleFileUrl(url, readable)]
                     /\ shown' = IF vsm
                                 THEN Some(Utf8Decode(HandleFileUrl(url, readable)))
                                 ELSE None
                     /\ out' = Returned(None, "")
                     /\ pc' = "idle"
              ELSE IF scheme = "data"
              THEN /\ handled' = [by |-> "data", readable |-> FALSE,
                                  body |-> HandleDataUrl(url)]
                   /\ shown' = IF vsm THEN Some(Utf8Decode(HandleDataUrl(url)))
                               ELSE None
                   /\ out' = Returned(None, "")
                   /\ pc' = "idle"
              ELSE /\ handled' = NoHandled
                   /\ shown' = None
                   /\ out' = Running
                   /\ pc' = "check"
    /\ req' = NoReq
    /\ lookup' = NoLookup
    /\ UNCHANGED <<pool, socks, store, clock, lastDone, answers, peer, chunked, mainv, datav, renderer>>

\* the display at the end of fetch: view-source prints the text and then
\* returns the never-assigned local response_content; otherwise the decoded
\* text is returned
Deliver(body) ==
    IF view_source_mode
    THEN /\ shown' = Some(Utf8Decode(body))
         /\ out' = Raised("UnboundLocalError")
    ELSE /\ shown' = shown
         /\ out' = Returned(Some(Utf8Decode(body)), "")

\* the head of one loop iteration: the hop limit, then the cache lookup
CacheCheck ==
    /\ pc = "check"
    /\ IF TooManyRedirects(redirects)
       THEN /\ out' = Returned(None, "Too many redirects")
            /\ pc' = "idle"
            /\ UNCHANGED <<store, shown, lookup>>
       ELSE LET g == CacheGet(store, url_to_fetch, clock)
            IN  /\ store' = g.store
                /\ lookup' = [url |-> url_to_fetch, t |-> clock,
                              before |-> IF url_to_fetch \in DOMAIN store
                                         THEN Some(store[url_to_fetch])
                                         ELSE None,
                              body |-> g.body,
                              kept |-> url_to_fetch \in DOMAIN g.store]
                /\ IF g.body # None
                   THEN Deliver(g.body[1]) /\ pc' = "idle"
                   ELSE pc' = "transport" /\ UNCHANGED <<out, shown>>
    /\ UNCHANGED <<raw_url, pool, socks, clock, view_source_mode, url_to_fetch,
                   redirects, req, nreq, start, lastDone, answers, peer,
                   chunked, mainv, handled, datav, renderer>>

\* the rest of the iteration: _http_request, then redirect, cache, display
Transport ==
    /\ pc = "transport"
    /\ \E e \in EnvOf(url_to_fetch) :
         LET h == HttpRequest(url_to_fetch, e, pool, socks)
             r == h.r
             auth == AuthorityOf(url_to_fetch)
         IN  /\ pool' = h.pool
             /\ socks' = h.socks
             /\ req' = [r EXCEPT !.prev = lastDone[auth]]
             /\ nreq' = nreq + 1
             /\ answers' = IF peer = "any" /\ ~Unreachable THEN answers + 1
                           ELSE answers
             /\ lastDone' = [lastDone EXCEPT ![auth] =
                               IF r.kind = "resp"
                               THEN [sock |-> r.sent_on, close |-> r.close]
                               ELSE [sock |-> 0, close |-> FALSE]]
             /\ IF r.kind = "fault"
                THEN /\ out' = Raised(r.why)
                     /\ pc' = "idle"
                     /\ UNCHANGED <<store, shown, url_to_fetch, redirects>>
                ELSE IF r.kind = "none"
                THEN /\ out' = Returned(None, r.why)
                     /\ pc' = "idle"
                     /\ UNCHANGED <<store, shown, url_to_fetch, redirects>>
                ELSE IF IsRedirect(r.status)
                THEN IF NoLocation(r.loc)
                     THEN /\ out' = Returned(None, "redirect with no Location")
                          /\ pc' = "idle"
                          /\ UNCHANGED <<store, shown, url_to_fetch, redirects>>
                     ELSE /\ url_to_fetch' = UrlJoin(url_to_fetch, r.loc)
                          /\ redirects' = redirects + 1
                          /\ pc' = "check"
                          /\ UNCHANGED <<store, shown, out>>
                ELSE /\ store' = IF Cacheable(r.status, r.cc)
                                 THEN CacheSet(store, url_to_fetch, r.body,
                                               CcMaxAge(r.cc), clock)
                                 ELSE store
                     /\ Deliver(r.body)
                     /\ pc' = "idle"
                     /\ UNCHANGED <<url_to_fetch, redirects>>
    /\ UNCHANGED <<raw_url, clock, view_source_mode, start, lookup, peer,
                   chunked, mainv, handled, datav, renderer>>

\* time passes between two fetch calls (a fetch call itself is taken to be
\* short against the clock's unit, the unit of max-age; the clock counts
\* from the first fetch call)
Tick ==
    /\ pc = "idle"
    /\ out.kind # "never"
    /\ clock < MaxTime
    /\ clock' = clock + 1
    /\ UNCHANGED <<raw_url, pool, socks, store, pc, view_source_mode,
                   url_to_fetch, redirects, out, shown, req, nreq, start,
                   lookup, lastDone, answers, peer, chunked, mainv, handled,
                   datav, renderer>>

\* a new engine: URL(raw_url) with its empty pool and cache
EngineInit ==
    /\ raw_url \in RawUrls
    /\ pool = <<>>
    /\ socks = <<>>
    /\ store = <<>>
    /\ clock = 0
    /\ pc = "idle"
    /\ view_source_mode = FALSE
    /\ url_to_fetch = ""
    /\ redirects = 0
    /\ out = [kind |-> "never", ret |-> None, why |-> ""]
    /\ shown = None
    /\ req = NoReq
    /\ nreq = 0
    /\ start = None
    /\ lookup = NoLookup
    /\ lastDone = [a \in Authorities |-> [sock |-> 0, close |-> FALSE]]
    /\ answers = 0
    /\ peer \in Peers
    /\ handled = NoHandled

\* no decode_chunked call is being followed
NotDecoding ==
    /\ wire = <<>>
    /\ decoded = <<>>
    /\ dpc = "off"
    /\ orig = <<>>
    /\ short = FALSE

\* no run of main is being followed
NotMain == argv = <<>> /\ mpc = "off"

\* no _handle_data_url call is being followed on its own
NotDataUrl == durl = <<>>

\* no Renderer is being followed
NotRendering ==
    renderer = [pos |-> "off", scroll |-> 0, doc_height |-> None,
                width |-> 0, height |-> 0, text |-> None]

Init ==
    /\ EngineInit /\ peer \in {"any", "steady"}
    /\ NotDecoding /\ NotMain /\ NotDataUrl /\ NotRendering

Next == FetchBegin \/ CacheCheck \/ Transport \/ Tick

Spec == Init /\ [][Next]_vars

\* the engine before a peer that frames its bodies in every way
InitFraming ==
    /\ EngineInit /\ peer = "framed"
    /\ NotDecoding /\ NotMain /\ NotDataUrl /\ NotRendering

SpecFraming == InitFraming /\ [][Next]_vars

\* a fetch call is a sequential loop: once called it keeps running
FairSpec == Spec /\ WF_vars(CacheCheck) /\ WF_vars(Transport)

----------------------------------------------------------------------------
(* ConnectionPool on its own: the class driven by any caller that opens *)
(* connections, stores them, closes them and tears the pool down.       *)

others == <<raw_url, store, clock, pc, view_source_mode, url_to_fetch,
            redirects, out, shown, req, nreq, start, lookup, lastDone,
            answers, peer, wire, decoded, dpc, orig, short, argv, mpc,
            handled, durl, renderer>>

\* The callers of a pool that no run of main is using.
\* The caller opens a connection to an authority
CallerOpen ==
    /\ mpc = "off"
    /\ Len(socks) < MaxSockets
    /\ \E a \in Authorities :
         socks' = Append(socks, [auth |-> a, open |-> TRUE])
    /\ UNCHANGED <<pool, others>>

\* conn_pool.set(scheme, host, port, sock): the key is whatever the caller
\* passes, the socket any open connection it holds
CallerSet ==
    /\ mpc = "off"
    /\ \E a \in Authorities, s \in 1..Len(socks) :
         /\ socks[s].open
         /\ pool' = PoolSet(pool, a, s)
    /\ UNCHANGED <<socks, others>>

\* the caller closes a connection
CallerClose ==
    /\ mpc = "off"
    /\ \E s \in 1..Len(socks) :
         /\ socks[s].open
         /\ socks' = CloseSock(socks, s)
    /\ UNCHANGED <<pool, others>>

\* conn_pool.close_all()
CallerCloseAll ==
    /\ mpc = "off"
    /\ pool # <<>>
    /\ pool' = PoolCloseAll(pool, socks).pool
    /\ socks' = PoolCloseAll(pool, socks).socks
    /\ UNCHANGED others

InitPool == Init /\ raw_url = None /\ peer = "any"

NextPool == CallerOpen \/ CallerSet \/ CallerClose \/ CallerCloseAll

SpecPool == InitPool /\ [][NextPool]_vars

----------------------------------------------------------------------------
(* decode_chunked and read_exact on their own: a byte sequence is split  *)
(* into chunks, encoded, and handed to decode_chunked as the stream of   *)
(* an unbuffered socket file (sock.makefile("rb", buffering=0)).         *)

\* bodies of every content up to MaxBody bytes are encoded
MaxBody == 2
\* the cuts of a split lie among the first MaxCut positions of the body
MaxCut == 3

CRLF == <<"\r", "\n">>

\* bytes of the bodies: an ordinary byte, a line feed, a digit
DataBytes == {"x", "\n", "0"}

HexDigits == <<"0", "1", "2", "3", "4", "5", "6", "7", "8", "9",
               "a", "b", "c", "d", "e", "f">>

\* what bytes.strip() and int() take for white space
Whitespace == {" ", "\t", "\r", "\n"}

\* rfile.readline(): through the first "\n", or all that is left
ReadLine(w) ==
    LET ends == {i \in 1..Len(w) : w[i] = "\n"}
        n == IF ends = {} THEN Len(w)
             ELSE CHOOSE i \in ends : \A j \in ends : i <= j
    IN  [line |-> SubSeq(w, 1, n), rest |-> SubSeq(w, n + 1, Len(w))]

\* bytes.strip()
Strip(l) ==
    LET keep == {i \in 1..Len(l) : l[i] \notin Whitespace}
    IN  IF keep = {} THEN <<>>
        ELSE SubSeq(l, CHOOSE i \in keep : \A j \in keep : i <= j,
                       CHOOSE i \in keep : \A j \in keep : i >= j)

\* line.split(b';', 1)[0] when b';' in line
BeforeSemicolon(l) ==
    LET at == {i \in 1..Len(l) : l[i] = ";"}
    IN  IF at = {} THEN l
        ELSE SubSeq(l, 1, (CHOOSE i \in at : \A j \in at : i <= j) - 1)

HexVal(d) == CHOOSE v \in 0..15 : HexDigits[v + 1] = d

RECURSIVE HexNum(_)
HexNum(l) ==
    IF l = <<>> THEN 0
    ELSE 16 * HexNum(SubSeq(l, 1, Len(l) - 1)) + HexVal(l[Len(l)])

\* int(line, 16): None when it raises ValueError
HexInt(l) ==
    LET t == Strip(l)
    IN  IF t = <<>> \/ \E i \in 1..Len(t) :
                         \A v \in 1..16 : HexDigits[v] # t[i]
        THEN None
        ELSE Some(HexNum(t))

\* read_exact(rfile, n): its loop reads until n bytes have come or the
\* stream has ended, however the stream cuts them into pieces
ReadExact(w, n) ==
    LET k == IF n < Len(w) THEN n ELSE Len(w)
    IN  [data |-> SubSeq(w, 1, k), rest |-> SubSeq(w, k + 1, Len(w))]

\* the encoding of decode_chunked's docstring: size in hex, optional
\* extension, CRLF, data, CRLF; then the zero chunk, trailer lines and a
\* blank line
RECURSIVE Hex(_)
Hex(n) ==
    IF n < 16 THEN <<HexDigits[n + 1]>>
    ELSE Hex(n \div 16) \o <<HexDigits[(n % 16) + 1]>>

RECURSIVE EncodeChunks(_, _)
EncodeChunks(cs, ext) ==
    IF cs = <<>> THEN <<>>
    ELSE Hex(Len(Head(cs))) \o ext \o CRLF \o Head(cs) \o CRLF
         \o EncodeChunks(Tail(cs), ext)

Encode(cs, ext, trailer) ==
    EncodeChunks(cs, ext) \o <<"0">> \o ext \o CRLF \o trailer \o CRLF

\* the non-empty chunks of b cut after the positions in cuts
RECURSIVE ChunksOf(_, _, _)
ChunksOf(b, cuts, from) ==
    IF from > Len(b) THEN <<>>
    ELSE LET later == {c \in cuts : c >= from}
             to == IF later = {} THEN Len(b)
                   ELSE CHOOSE c \in later : \A d \in later : c <= d
         IN  <<SubSeq(b, from, to)>> \o ChunksOf(b, cuts, to + 1)

CutPoints(b) == {i \in 1..(Len(b) - 1) : i <= MaxCut}

\* every body up to MaxBody bytes, and two long ones whose sizes need the
\* hex digit a and the two hex digits 10
Bodies ==
    UNION {[1..n -> DataBytes] : n \in 0..MaxBody}
    \cup {[i \in 1..n |-> "x"] : n \in {10, 16}}

Extensions == {<<>>, <<";", "e", "=", "1">>}
Trailers == {<<>>, <<"T", ":", "v", "\r", "\n">>}

InitChunked ==
    /\ EngineInit /\ raw_url = None /\ peer = "any"
    /\ \E b \in Bodies, ext \in Extensions, tr \in Trailers :
         \E cuts \in SUBSET CutPoints(b) :
            /\ orig = b
            /\ wire = Encode(ChunksOf(b, cuts, 1), ext, tr)
    /\ decoded = <<>>
    /\ dpc = "size"
    /\ short = FALSE
    /\ NotMain
    /\ NotDataUrl
    /\ NotRendering

engine == <<raw_url, pool, socks, store, clock, pc, view_source_mode,
            url_to_fetch, redirects, out, shown, req, nreq, start, lookup,
            lastDone, answers, peer, handled, durl, renderer>>

\* one turn of the loop up to the chunk's data: the size line, then either
\* the end of the stream, the RuntimeError, the zero chunk, or read_exact
ReadSize ==
    /\ dpc = "size"
    /\ LET rl == ReadLine(wire)
           size == HexInt(BeforeSemicolon(Strip(rl.line)))
       IN  IF rl.line = <<>>
           THEN dpc' = "done" /\ UNCHANGED <<wire, decoded>>
           ELSE IF size = None
           THEN dpc' = "fault" /\ wire' = rl.rest /\ UNCHANGED decoded
           ELSE IF size[1] = 0
           THEN dpc' = "trailer" /\ wire' = rl.rest /\ UNCHANGED decoded
           ELSE LET rx == ReadExact(rl.rest, size[1])
                IN  /\ decoded' = decoded \o rx.data
                    /\ wire' = rx.rest
                    /\ dpc' = "crlf"
    /\ UNCHANGED <<orig, short, engine, mainv>>

\* rfile.read(2) after the data: the raw stream gives the two bytes, or
\* only the first of them when the second has not arrived yet
ReadCrlf ==
    /\ dpc = "crlf"
    /\ \E k \in 0..2 :
         /\ k <= Len(wire)
         /\ k = 0 => Len(wire) = 0
         /\ wire' = SubSeq(wire, k + 1, Len(wire))
         /\ short' = (short \/ (k = 1 /\ Len(wire) >= 2))
    /\ dpc' = "size"
    /\ UNCHANGED <<decoded, orig, engine, mainv>>

\* the trailer loop after the zero chunk
ReadTrailer ==
    /\ dpc = "trailer"
    /\ LET rl == ReadLine(wire)
       IN  /\ wire' = rl.rest
           /\ dpc' = IF rl.line \in {<<>>, CRLF, <<"\n">>} THEN "done"
                     ELSE "trailer"
    /\ UNCHANGED <<decoded, orig, short, engine, mainv>>

NextChunked == ReadSize \/ ReadCrlf \/ ReadTrailer

SpecChunked == InitChunked /\ [][NextChunked]_vars

----------------------------------------------------------------------------
(* main: the entry point of tiny_browser.py *)

\* the parameters of URL.fetch besides self
FetchParams == 0

\* sys.argv[1:]: no argument, one url, or a url and one more argument
Argvs ==
    {<<>>} \cup {<<u>> : u \in RawUrls \ {None}}
    \cup {<<u, v>> : u, v \in RawUrls \ {None}}

\* url = None if len(sys.argv) < 2 else sys.argv[1]
MainUrl == IF Len(argv) < 1 THEN None ELSE argv[1]

\* a call of fetch with these arguments binds them to its parameters
CallBinds(args) == Len(args) = FetchParams

InitMain ==
    /\ EngineInit /\ raw_url = None /\ peer = "any"
    /\ NotDecoding
    /\ NotDataUrl
    /\ NotRendering
    /\ argv \in Argvs
    /\ mpc = "start"

\* b = URL() and the choice of url
MainConstruct ==
    /\ mpc = "start"
    /\ raw_url' = None
    /\ pool' = <<>>
    /\ store' = <<>>
    /\ mpc' = "try"
    /\ UNCHANGED <<socks, clock, pc, view_source_mode, url_to_fetch,
                   redirects, out, shown, req, nreq, start, lookup, lastDone,
                   answers, peer, chunked, argv, handled, durl, renderer>>

\* try: b.fetch(url).  The call passes one argument to a method that takes
\* none besides self: the TypeError of the call is raised inside the try,
\* before any statement of fetch
MainCall ==
    /\ mpc = "try"
    /\ ~CallBinds(<<MainUrl>>)
    /\ out' = Raised("TypeError")
    /\ mpc' = "finally"
    /\ UNCHANGED <<raw_url, pool, socks, store, clock, pc, view_source_mode,
                   url_to_fetch, redirects, shown, req, nreq, start, lookup,
                   lastDone, answers, peer, chunked, argv, handled, durl, renderer>>

\* finally: b.conn_pool.close_all(); the exception then ends the process
MainFinally ==
    /\ mpc = "finally"
    /\ pool' = PoolCloseAll(pool, socks).pool
    /\ socks' = PoolCloseAll(pool, socks).socks
    /\ mpc' = "exited"
    /\ UNCHANGED <<raw_url, store, clock, pc, view_source_mode, url_to_fetch,
                   redirects, out, shown, req, nreq, start, lookup, lastDone,
                   answers, peer, chunked, argv, handled, durl, renderer>>

NextMain == MainConstruct \/ MainCall \/ MainFinally

\* main is sequential code: it keeps running
SpecMain == InitMain /\ [][NextMain]_vars /\ WF_vars(NextMain)

\* teardown: the runs of main together with the runs of a pool under any
\* caller, in which close_all meets stored connections
NextTeardown == NextMain \/ NextPool

SpecTeardown ==
    (InitMain \/ InitPool) /\ [][NextTeardown]_vars /\ WF_vars(NextMain)

----------------------------------------------------------------------------
(* URL._handle_data_url on its own, applied to urls given character by   *)
(* character; bytes are numbers.                                         *)

\* the printable ASCII characters, code 32 first (three of them, which no
\* url of the model contains, by name)
AsciiChars ==
    <<" ", "!", "QUOTE", "#", "$", "%", "&", "'", "(", ")", "*", "+", ",",
      "-", ".", "/", "0", "1", "2", "3", "4", "5", "6", "7", "8", "9", ":",
      ";", "<", "=", ">", "?", "@", "A", "B", "C", "D", "E", "F", "G", "H",
      "I", "J", "K", "L", "M", "N", "O", "P", "Q", "R", "S", "T", "U", "V",
      "W", "X", "Y", "Z", "[", "BACKSLASH", "]", "^", "_", "BACKTICK", "a",
      "b", "c", "d", "e", "f", "g", "h", "i", "j", "k", "l", "m", "n", "o",
      "p", "q", "r", "s", "t", "u", "v", "w", "x", "y", "z", "{", "|", "}",
      "~">>

\* ord(c)
Ord(c) == 31 + CHOOSE i \in 1..Len(AsciiChars) : AsciiChars[i] = c

\* str.encode on ASCII text
Encoded(s) == [i \in 1..Len(s) |-> Ord(s[i])]

Base64Alphabet ==
    <<"A", "B", "C", "D", "E", "F", "G", "H", "I", "J", "K", "L", "M", "N",
      "O", "P", "Q", "R", "S", "T", "U", "V", "W", "X", "Y", "Z", "a", "b",
      "c", "d", "e", "f", "g", "h", "i", "j", "k", "l", "m", "n", "o", "p",
      "q", "r", "s", "t", "u", "v", "w", "x", "y", "z", "0", "1", "2", "3",
      "4", "5", "6", "7", "8", "9", "+", "/">>

IsBase64Char(c) == c = "=" \/ \E i \in 1..64 : Base64Alphabet[i] = c

Base64Val(c) == (CHOOSE i \in 1..64 : Base64Alphabet[i] = c) - 1

\* the bytes of one group of four base64 characters
Base64Quad(g) ==
    LET a == Base64Val(g[1])
        b == Base64Val(g[2])
        c == IF g[3] = "=" THEN 0 ELSE Base64Val(g[3])
        d == IF g[4] = "=" THEN 0 ELSE Base64Val(g[4])
        all == <<a * 4 + b \div 16, (b % 16) * 16 + c \div 4,
                 (c % 4) * 64 + d>>
    IN  IF g[3] = "=" THEN SubSeq(all, 1, 1)
        ELSE IF g[4] = "=" THEN SubSeq(all, 1, 2)
        ELSE all

RECURSIVE Base64Quads(_)
Base64Quads(t) ==
    IF t = <<>> THEN <<>>
    ELSE Base64Quad(SubSeq(t, 1, 4)) \o Base64Quads(SubSeq(t, 5, Len(t)))

\* base64.b64decode(data): characters outside the alphabet are dropped;
\* None when it raises binascii.Error (the characters left do not come in
\* groups of four).  Padding occurs only at the end in the model.
Base64Decode(data) ==
    LET t == SelectSeq(data, IsBase64Char)
    IN  IF Len(t) % 4 # 0 THEN None ELSE Some(Base64Quads(t))

IsHexChar(c) ==
    c \in {"A", "B", "C", "D", "E", "F"} \/ \E i \in 1..16 : HexDigits[i] = c

\* the value of a hex digit of either case
HexOf(c) ==
    IF c \in {"A", "B", "C", "D", "E", "F"}
    THEN CHOOSE v \in 10..15 : <<"A", "B", "C", "D", "E", "F">>[v - 9] = c
    ELSE HexVal(c)

\* urllib.parse.unquote_to_bytes: %XX with two hex digits is the byte XX,
\* everything else stands for itself
RECURSIVE Unquote(_)
Unquote(s) ==
    IF s = <<>> THEN <<>>
    ELSE IF s[1] = "%" /\ Len(s) >= 3 /\ IsHexChar(s[2]) /\ IsHexChar(s[3])
    THEN <<16 * HexOf(s[2]) + HexOf(s[3])>> \o Unquote(SubSeq(s, 4, Len(s)))
    ELSE <<Ord(s[1])>> \o Unquote(Tail(s))

\* bytes.decode("utf-8", "replace").encode("utf8"), which is what unquote
\* followed by encode does to the unquoted bytes: ASCII and well-formed
\* two-byte sequences stay, any other byte becomes U+FFFD (sequences of
\* three and four bytes are not among the inputs of the model)
RECURSIVE Utf8Replace(_)
Utf8Replace(b) ==
    IF b = <<>> THEN <<>>
    ELSE IF b[1] < 128 THEN <<b[1]>> \o Utf8Replace(Tail(b))
    ELSE IF b[1] >= 194 /\ b[1] <= 223 /\ Len(b) >= 2
            /\ b[2] >= 128 /\ b[2] <= 191
    THEN <<b[1], b[2]>> \o Utf8Replace(SubSeq(b, 3, Len(b)))
    ELSE <<239, 191, 189>> \o Utf8Replace(Tail(b))

\* s.find(sub) + 1: where sub first occurs in s, 0 when it does not
Find(sub, s) ==
    LET at == {i \in 1..(Len(s) - Len(sub) + 1) :
                  SubSeq(s, i, i + Len(sub) - 1) = sub}
    IN  IF at = {} THEN 0 ELSE CHOOSE i \in at : \A j \in at : i <= j

DataPrefix == <<"d", "a", "t", "a", ":">>
Base64Mark == <<";", "b", "a", "s", "e", "6", "4">>

\* a data handler that cuts the url at its last comma
HandleDataUrlChars_LastComma(raw) ==
    LET body == SubSeq(raw, Len(DataPrefix) + 1, Len(raw))
        at == {i \in 1..Len(body) : body[i] = ","}
        c == IF at = {} THEN 0 ELSE CHOOSE i \in at : \A j \in at : i >= j
        meta == SubSeq(body, 1, c - 1)
        data == SubSeq(body, c + 1, Len(body))
    IN  IF c = 0 THEN Returned(Some(<<>>), "")
        ELSE IF Find(Base64Mark, meta) # 0
        THEN (IF Base64Decode(data) = None THEN Raised("binascii.Error")
              ELSE Returned(Base64Decode(data), ""))
        ELSE Returned(Some(Utf8Replace(Unquote(data))), "")

\* _handle_data_url(raw_url): how the call ends, Returned(Some(bytes)) or
\* Raised(exception)
HandleDataUrlChars(raw) ==
    LET body == SubSeq(raw, Len(DataPrefix) + 1, Len(raw))
        c == Find(<<",">>, body)
        meta == SubSeq(body, 1, c - 1)
        data == SubSeq(body, c + 1, Len(body))
    IN  IF SubSeq(raw, 1, Len(DataPrefix)) # DataPrefix
        THEN Raised("AssertionError")
        ELSE IF c = 0 THEN Returned(Some(<<>>), "")
        ELSE IF Find(Base64Mark, meta) # 0
        THEN (IF Base64Decode(data) = None THEN Raised("binascii.Error")
              ELSE Returned(Base64Decode(data), ""))
        ELSE Returned(Some(Utf8Replace(Unquote(data))), "")

\* what stands before the comma of the urls of the model ...
DataMetas ==
    {<<>>,
     <<"t", "e", "x", "t", "/", "h", "t", "m", "l">>,
     <<"t", "e", "x", "t", "/", "p", "l", "a", "i", "n", ";", "c", "h", "a", "r", "s", "e", "t", "=", "x">>,
     <<";", "b", "a", "s", "e", "6", "4">>,
     <<"t", "e", "x", "t", "/", "h", "t", "m", "l", ";", "b", "a", "s", "e", "6", "4">>,
     <<"i", "m", "a", "g", "e", "/", "p", "n", "g", ";", "b", "a", "s", "e", "6", "4">>,
     <<";", "b", "a", "s", "e", "6", "4", ";", "c", "h", "a", "r", "s", "e", "t", "=", "x">>}

\* ... and after it
DataPayloads ==
    {<<>>,
     <<"h", "i">>,
     <<"H", "e", "l", "l", "o", "%", "2", "0", "W", "o", "r", "l", "d">>,
     <<"a", "G", "k", "=">>,
     <<"a", "G", "k">>,
     <<"a", "G", "V", "s", "b", "G", "8", "=">>,
     <<"a", "G", "V", "5">>,
     <<"Y", "Q", "=", "=">>,
     <<"%", "F", "F">>,
     <<"%", "C", "3", "%", "A", "9">>,
     <<"%", "z", "z">>,
     <<"a", "%", "2">>,
     <<"a", ",", "b">>,
     <<"%", "2", "c", "%", "3", "B">>}

\* data urls with a comma, data urls without one, and a url whose scheme
\* fetch takes for data although it does not begin with "data:"
DataUrls ==
    {DataPrefix \o m \o <<",">> \o p : m \in DataMetas, p \in DataPayloads}
    \cup {DataPrefix \o m : m \in DataMetas}
    \cup {<<"D", "A", "T", "A", ":", ",", "h", "i">>}

InitDataUrl ==
    /\ EngineInit /\ raw_url = None /\ peer = "any"
    /\ NotDecoding
    /\ NotMain
    /\ durl \in DataUrls
    /\ NotRendering

\* body = self._handle_data_url(self.raw_url)
HandleDataUrlCall ==
    /\ durl # <<>>
    /\ out.kind = "never"
    /\ out' = HandleDataUrlChars(durl)
    /\ UNCHANGED <<raw_url, pool, socks, store, clock, pc, view_source_mode,
                   url_to_fetch, redirects, shown, req, nreq, start, lookup,
                   lastDone, answers, peer, chunked, mainv, handled, durl, renderer>>

NextDataUrl == HandleDataUrlCall

SpecDataUrl == InitDataUrl /\ [][NextDataUrl]_vars

----------------------------------------------------------------------------
(* The caching block of fetch on its own, applied to responses with any  *)
(* Cache-Control header of up to MaxParts parts.                         *)

MaxParts == 3

\* the parts a Cache-Control header of the model is made of
CcParts == {"public", "no-store", "max-age=0", "max-age=1", "max-age=x",
            "max-age"}

CcHeaders == UNION {[1..n -> CcParts] : n \in 0..MaxParts}

\* from cc = headers.get("cache-control", "") to self.cache.set, for a
\* response that is no redirect
CacheResponse ==
    /\ pc = "idle"
    /\ out.kind = "never"
    /\ req = NoReq
    /\ \E cc \in CcHeaders, status \in {200, 404} :
         /\ req' = [NoReq EXCEPT !.url = "http://a/", !.kind = "resp",
                                 !.status = status, !.cc = cc, !.body = "b1"]
         /\ store' = IF Cacheable(status, cc)
                     THEN CacheSet(store, "http://a/", "b1", CcMaxAge(cc),
                                   clock)
                     ELSE store
    /\ UNCHANGED <<raw_url, pool, socks, clock, pc, view_source_mode,
                   url_to_fetch, redirects, out, shown, nreq, start, lookup,
                   lastDone, answers, peer, chunked, mainv, handled, datav, renderer>>

NextCacheControl == CacheResponse

SpecCacheControl == InitPool /\ [][NextCacheControl]_vars

----------------------------------------------------------------------------
(* Renderer (src/render_engine/renderer.py): the scroll offset under the   *)
(* key, wheel and resize handlers.  A page text is the number of its       *)
(* words; the font is the environment and gives every word one measure.    *)

WIDTH == 800
HEIGHT == 600
SCROLL_STEP == 100
HSTEP == 10
VSTEP == 20

\* font.measure(word), font.measure(" ") and font.metrics("linespace")
WordWidth == 300
SpaceWidth == 10
LineSpace == 32

MaxWords == 16

\* what url.fetch() gives load: None, or a text of up to MaxWords words
Texts == {None} \cup {Some(n) : n \in 0..MaxWords}

\* event.width, event.height of <Configure> and event.delta of <MouseWheel>
Widths == {400, WIDTH}
Heights == {200, 300, HEIGHT}
WheelDeltas == {-240, -120, -60, 60, 120, 240}

Max(a, b) == IF a >= b THEN a ELSE b
Min(a, b) == IF a <= b THEN a ELSE b

\* layout: the y of the last of n words laid out from the cursor (x, y) in a
\* window w wide
RECURSIVE LayoutLoop(_, _, _, _)
LayoutLoop(n, w, x, y) ==
    IF n = 0 THEN y
    ELSE LET wrap == x + WordWidth > w - HSTEP
             y1 == IF wrap THEN y + (LineSpace * 5) \div 4 ELSE y
             x1 == IF wrap THEN HSTEP ELSE x
         IN  IF n = 1 THEN y1
             ELSE LayoutLoop(n - 1, w, x1 + WordWidth + SpaceWidth, y1)

\* layout, then compute_document_height
DocHeight(n, w) ==
    IF n = 0 THEN 0 ELSE LayoutLoop(n, w, HSTEP, VSTEP) + VSTEP

\* a clamp that only keeps the offset above the end of the page
ClampScroll_NoFloor(sc, dh, h) == Min(sc, dh - h)

\* clamp_scroll
ClampScroll(sc, dh, h) == Max(0, Min(sc, dh - h))

\* draw: the canvas is repainted and draw_scrollbar clamps the offset
Draw(r) == [r EXCEPT !.scroll = ClampScroll(r.scroll, r.doc_height, r.height)]

\* everything but the renderer
fetcher == <<raw_url, pool, socks, store, clock, pc, view_source_mode,
          url_to_fetch, redirects, out, shown, req, nreq, start, lookup,
          lastDone, answers, peer, chunked, mainv, handled, datav>>

\* Renderer.load: self.text.split() raises on the None of a fetch that
\* returned nothing, and the exception leaves load
Load ==
    /\ renderer.pos = "new"
    /\ \E t \in Texts :
         renderer' =
            IF t = None
            THEN [renderer EXCEPT !.pos = "failed", !.text = None]
            ELSE Draw([renderer EXCEPT !.pos = "loaded", !.text = t,
                                       !.doc_height = DocHeight(t[1], WIDTH)])
    /\ UNCHANGED fetcher

\* <Down>
scrolldown ==
    /\ renderer.pos = "loaded"
    /\ renderer' = Draw([renderer EXCEPT !.scroll = @ + SCROLL_STEP])
    /\ UNCHANGED fetcher

\* <Up>
scrollup ==
    /\ renderer.pos = "loaded"
    /\ renderer' = Draw([renderer EXCEPT !.scroll = @ - SCROLL_STEP])
    /\ UNCHANGED fetcher

\* <MouseWheel>
on_mousewheel ==
    /\ renderer.pos = "loaded"
    /\ \E d \in WheelDeltas :
         LET delta == (-1) * (d \div 120)
         IN  renderer' =
                Draw([renderer EXCEPT
                        !.scroll = Max(0, @ + delta * SCROLL_STEP)])
    /\ UNCHANGED fetcher

\* <Configure>: nothing happens unless the width changed
on_resize ==
    /\ renderer.pos = "loaded"
    /\ \E w \in Widths, h \in Heights :
         renderer' =
            IF w # renderer.width
            THEN Draw([renderer EXCEPT
                         !.width = w, !.height = h,
                         !.doc_height = DocHeight(renderer.text[1], w)])
            ELSE renderer
    /\ UNCHANGED fetcher

\* Renderer.__init__
InitRenderer ==
    /\ EngineInit /\ raw_url = None /\ peer = "any"
    /\ NotDecoding /\ NotMain /\ NotDataUrl
    /\ renderer = [pos |-> "new", scroll |-> 0, doc_height |-> None,
                   width |-> WIDTH, height |-> HEIGHT, text |-> Some(0)]

NextRenderer == Load \/ scrolldown \/ scrollup \/ on_mousewheel \/ on_resize

SpecRenderer == InitRenderer /\ [][NextRenderer]_vars

----------------------------------------------------------------------------
(* Properties *)

\* the page text the last fetch call handed over: returned in normal mode,
\* printed in view-source mode
Delivered(body) ==
    IF view_source_mode
    THEN shown = Some(Utf8Decode(body))
    ELSE out = Returned(Some(Utf8Decode(body)), "")

\* the first sendall of the last request raised
FirstSendFailed ==
    \/ req.sends = 2
    \/ req.sends = 1 /\ req.sent_on = 0

\* the reconnect's sendall of the last request raised
RetrySendRaised == req.sends = 2 /\ req.sent_on = 0

HopsBounded ==
    /\ pc = "transport" => redirects <= max_redirects
    /\ redirects <= max_redirects + 1
    /\ (pc = "idle" /\ redirects > max_redirects)
           => out = Returned(None, "Too many redirects")
    /\ out.why = "Too many redirects"
           => /\ redirects = max_redirects + 1
              /\ out.kind = "returned" /\ out.ret = None /\ shown = None
    /\ (pc = "idle" /\ req.kind = "resp" /\ ~IsRedirect(req.status))
           => redirects <= max_redirects /\ Delivered(req.body)

\* C1: redirect bound.  redirects counts the 3xx responses followed so far.
\* No request is made after more than max_redirects of them; a chain of
\* redirects <= max_redirects 3xx responses that ends in another response
\* ends the fetch with that response's body delivered; a chain that passes
\* max_redirects ends the fetch with the message "Too many redirects", which
\* nothing else produces, and with nothing delivered; and every fetch call
\* that is running comes to its end.
C1_RedirectBound == []HopsBounded /\ ((pc # "idle") ~> (pc = "idle"))

C1_Witness ==
    /\ pc = "idle"
    /\ redirects = max_redirects + 1
    /\ nreq = max_redirects + 1
    /\ out = Returned(None, "Too many redirects")

\* C2: cache expiry as the claim states it.  For a lookup that found an
\* entry with maxAge = N, stored at t0 and read at t: the body is returned
\* when t - t0 < N, and when t - t0 >= N the lookup misses and the entry is
\* gone.
C2_ExpiryAsClaimed ==
    (lookup.before # None /\ lookup.before[1].max_age # None) =>
        LET v == lookup.before[1]
            elapsed == lookup.t - v.stored
        IN  /\ elapsed < v.max_age[1] => lookup.body = Some(v.body)
            /\ elapsed >= v.max_age[1] => lookup.body = None /\ ~lookup.kept

\* C3: cache hit idempotence.  A fetch call that begins while its url is
\* cached with no expiry makes no transport request (no connect, no send,
\* never at the transport step) and ends by returning the cached body.
C3_CacheHitIdempotent ==
    start # None =>
        /\ nreq = 0
        /\ req = NoReq
        /\ pc # "transport"
        /\ pc = "idle" => out = Returned(Some(Utf8Decode(start[1])), "")

C3_Witness ==
    /\ start # None
    /\ pc = "idle"
    /\ lookup.t > 0
    /\ out.kind = "returned"
    /\ out.ret = Some(Utf8Decode("b2"))

\* C4: stale-connection resilience as the claim states it.  When the first
\* send on a pooled connection fails, that connection is closed, one
\* connection is opened, the send is tried once more at most, and when that
\* second send fails too the request returns a failure to its caller.
C4_StaleRetryAsClaimed ==
    (req.pooled # 0 /\ FirstSendFailed) =>
        /\ ~socks[req.pooled].open
        /\ req.connects = 1
        /\ req.sends <= 2
        /\ RetrySendRaised => req.kind = "none"

\* C5 as the claim states it: a request that follows a completed request to
\* the same authority is sent on the connection that carried the earlier
\* response, with no connect, when that response did not declare close; and
\* on a connection opened in this request when it did.
C5_ReuseAsClaimed ==
    (req.kind # "never" /\ req.prev.sock # 0) =>
        IF req.prev.close
        THEN req.sent_on # 0 =>
                 req.sent_on # req.prev.sock /\ req.connects >= 1
        ELSE req.sent_on = req.prev.sock /\ req.connects = 0

\* C5, amended: when the earlier response did not declare close, the request
\* takes that same connection from the pool and sends on it; it connects
\* (once) only when that send fails.  When the earlier response declared
\* close, the request is sent, if at all, on a connection opened in this
\* request.
C5_Reuse ==
    (req.kind # "never" /\ req.prev.sock # 0) =>
        IF req.prev.close
        THEN req.sent_on # 0 =>
                 req.sent_on # req.prev.sock /\ req.connects >= 1
        ELSE /\ req.pooled = req.prev.sock
             /\ IF FirstSendFailed
                THEN req.connects = 1 /\ req.sent_on # req.prev.sock
                ELSE req.connects = 0 /\ req.sent_on = req.prev.sock

C5_Witness ==
    /\ req.kind = "resp"
    /\ req.prev.sock # 0
    /\ ~req.prev.close
    /\ req.sent_on = req.prev.sock
    /\ req.connects = 0

\* C6: no fetch call ends in an uncaught exception.
C6_NoUncaughtFault == out.kind # "fault"

\* C7: cache population.  A step creates or overwrites the cache entry of a
\* url only as the end of a request for that url whose response had status
\* 200 and a Cache-Control without no-store.
C7_CachePopulation ==
    [][\A u \in DOMAIN store' :
          (u \notin DOMAIN store \/ store'[u] # store[u]) =>
              /\ nreq' = nreq + 1
              /\ req'.kind = "resp"
              /\ req'.url = u
              /\ req'.status = 200
              /\ ~CcNoStore(req'.cc)]_vars

C7_Witness ==
    /\ req.kind = "resp"
    /\ req.status = 200
    /\ req.url \in DOMAIN store
    /\ store[req.url].body = req.body
    /\ store[req.url].max_age = Some(1)

\* C9: connection disposition as the claim states it.  After a request that
\* got a response: when the response asked for close, the socket that
\* carried it is closed and the pool holds it under no authority; otherwise
\* the pool maps the request's authority to that socket.
C9_DispositionAsClaimed ==
    req.kind = "resp" =>
        IF req.close
        THEN /\ ~socks[req.sent_on].open
             /\ \A a \in DOMAIN pool : pool[a] # req.sent_on
        ELSE PoolGet(pool, AuthorityOf(req.url)) = req.sent_on

\* C10: a 3xx response without a Location value ends the fetch at once:
\* the call returns nothing with the message "redirect with no Location",
\* nothing is shown, and the step leaves the cache as it was.
C10_RedirectWithoutLocation ==
    [][(nreq' = nreq + 1 /\ req'.kind = "resp" /\ IsRedirect(req'.status)
          /\ req'.loc \in {AbsentHdr, ""}) =>
              /\ pc' = "idle"
              /\ out' = Returned(None, "redirect with no Location")
              /\ shown' = None
              /\ store' = store]_vars

C10_Witness ==
    /\ pc = "idle"
    /\ req.kind = "resp"
    /\ IsRedirect(req.status)
    /\ req.loc = ""
    /\ out = Returned(None, "redirect with no Location")

\* C8: pool put as the claim states it.  Whenever a step stores a socket
\* under an authority that held a different socket, the socket held before
\* is closed by the end of that step.
C8_SetClosesReplaced ==
    [][\A a \in DOMAIN pool :
          (a \in DOMAIN pool' /\ pool'[a] # pool[a]) =>
              ~socks'[pool[a]].open]_vars

\* the cache holds an unexpired body for u now
CachedNow(u) ==
    /\ u \in DOMAIN store
    /\ \/ store[u].max_age = None
       \/ clock - store[u].stored < store[u].max_age[1]

\* every _http_request of a fetch is for the url that the fetch's last cache
\* lookup missed
LookupBeforeTransport ==
    nreq' = nreq + 1 =>
        /\ pc = "transport"
        /\ req'.url = url_to_fetch
        /\ lookup.url = url_to_fetch
        /\ lookup.body = None

\* C11 as the claim states it: every transport request follows a missed
\* cache lookup of the same url, and the loop iteration that finds any
\* redirect target cached delivers the cached body without a request.
C11_CacheFirstAsClaimed ==
    [][/\ LookupBeforeTransport
       /\ (pc = "check" /\ redirects > 0 /\ CachedNow(url_to_fetch)) =>
              /\ pc' = "idle"
              /\ nreq' = nreq
              /\ req' = req
              /\ Delivered(store[url_to_fetch].body)']_vars

\* C11, amended: every transport request follows a missed cache lookup of
\* the same url, and the loop iteration that finds a redirect target cached
\* after at most max_redirects redirects delivers the cached body without a
\* request.
C11_CacheFirst ==
    [][/\ LookupBeforeTransport
       /\ (pc = "check" /\ redirects > 0 /\ redirects <= max_redirects
             /\ CachedNow(url_to_fetch)) =>
              /\ pc' = "idle"
              /\ nreq' = nreq
              /\ req' = req
              /\ Delivered(store[url_to_fetch].body)']_vars

C11_Witness ==
    /\ pc = "idle"
    /\ redirects > 0
    /\ nreq = redirects
    /\ lookup.url = url_to_fetch
    /\ lookup.body # None
    /\ req.url # url_to_fetch
    /\ out = Returned(Some(Utf8Decode(lookup.body[1])), "")

\* what the contract lets a fetch that obtained the bytes b return
Contracted(b) == IF view_source_mode THEN Some(b) ELSE Some(Utf8Decode(b))

\* C12: output contract as the claim states it.  A fetch call that ended
\* after obtaining a resource (a file or data url, a cache hit, a 200
\* response) returned something: the decoded text in normal mode, the raw
\* text in view-source mode.
C12_OutputContractAsClaimed ==
    (pc = "idle" /\ out.kind # "never") =>
        LET scheme == UrlScheme(Head(raw_url))
        IN  /\ scheme = "file" => out.kind = "returned" /\ out.ret # None
            /\ scheme = "data" =>
                   out = Returned(Contracted(HandleDataUrl(Head(raw_url))), "")
            /\ (scheme \in {"http", "https"} /\ lookup.body # None) =>
                   out = Returned(Contracted(lookup.body[1]), "")
            /\ (scheme \in {"http", "https"} /\ req.kind = "resp"
                  /\ req.status = 200) =>
                   out = Returned(Contracted(req.body), "")

\* decode_chunked returned, and what it returned is the encoded sequence
RoundTrip == dpc # "fault" /\ (dpc = "done" => decoded = orig /\ wire = <<>>)

\* C13: chunked round trip as the claim states it, for every body, split,
\* extension and trailer of the model: decode_chunked raises nothing and
\* returns the encoded byte sequence.
C13_RoundTripAsClaimed == RoundTrip

\* the same as long as every read(2) gave both bytes of the CRLF
RoundTripOnWholeReads == ~short => RoundTrip

\* the ways a response is malformed: nothing before the status line, a
\* status line of fewer than two fields, a chunk-size line int() rejects
Malformed == {"empty response", "bad status line", "Bad chunk size"}

\* C14: a request that meets a malformed response ends the fetch in the same
\* step, by returning nothing or by the decoder's exception; no text is
\* returned or shown and the cache is left as it was.
C14_MalformedAborts ==
    [][(nreq' = nreq + 1 /\ req'.why \in Malformed) =>
          /\ pc' = "idle"
          /\ out'.kind \in {"returned", "fault"}
          /\ out'.ret = None
          /\ out'.why = req'.why
          /\ shown' = None
          /\ store' = store]_vars

C14_Witness ==
    /\ pc = "idle"
    /\ redirects > 0
    /\ req.why = "Bad chunk size"
    /\ out = Raised("Bad chunk size")
    /\ shown = None

\* a step of close_all closes every stored connection and empties the pool
CloseAllClosesAll ==
    (CallerCloseAll \/ MainFinally) =>
        /\ pool' = <<>>
        /\ \A a \in DOMAIN pool : ~socks'[pool[a]].open

\* main exits only out of its finally block
ExitThroughFinally ==
    (mpc' = "exited" /\ mpc # "exited") =>
        /\ MainFinally
        /\ pool' = <<>>

\* C15: teardown.  Every close_all step closes every connection stored in
\* the pool and leaves the pool empty; main exits only after close_all has
\* run, whatever way its fetch call ended; and every run of main comes to
\* that exit.
C15_Teardown ==
    /\ [][CloseAllClosesAll /\ ExitThroughFinally]_vars
    /\ ((mpc = "try") ~> (mpc = "exited" /\ pool = <<>>))

C15_Witness ==
    /\ mpc = "exited"
    /\ out.kind = "fault"
    /\ pool = <<>>

\* C19 as the claim states it: a run of main without a url argument ends
\* with the fetch of the default file url returned, a run with one url
\* argument with a fetch of that url ended, and neither with an exception.
C19_NoUrlIsNoErrorAsClaimed ==
    mpc = "exited" =>
        /\ out.kind = "returned"
        /\ Len(argv) = 0 => raw_url = <<DefaultFileUrl>>
        /\ Len(argv) = 1 => raw_url = <<argv[1][Len(argv[1])]>>

\* C16: file errors are recovered locally.  A fetch of a file url whose
\* file cannot be read gets the synthesized error page from the file handler
\* and ends by returning, not by an exception; in view-source mode the error
\* page is what is printed.
C16_FileErrorRecovered ==
    (handled.by = "file" /\ ~handled.readable) =>
        /\ handled.body = "File error"
        /\ pc = "idle"
        /\ out.kind = "returned"
        /\ view_source_mode => shown = Some(Utf8Decode("File error"))

C16_Witness ==
    /\ handled.by = "file"
    /\ ~handled.readable
    /\ raw_url = <<DefaultFileUrl>>
    /\ view_source_mode
    /\ shown = Some(Utf8Decode("File error"))
    /\ out.kind = "returned"

\* the two urls of the claim and the texts they stand for
HelloUrl ==
    <<"d", "a", "t", "a", ":", ",", "H", "e", "l", "l", "o", "%", "2", "0", "W", "o", "r", "l", "d">>
HelloText == <<"H", "e", "l", "l", "o", " ", "W", "o", "r", "l", "d">>
HiUrl ==
    <<"d", "a", "t", "a", ":", "t", "e", "x", "t", "/", "h", "t", "m", "l">>
    \o <<";", "b", "a", "s", "e", "6", "4", ",", "a", "G", "k", "=">>
HiText == <<"h", "i">>

Parseable(p) == p \in {"max-age=0", "max-age=1"}
WindowOf(p) == IF p = "max-age=0" THEN 0 ELSE 1

\* C18: max-age handling as the claim states it.  The entry stored for a
\* 200 response without no-store has the expiry window N of a parseable
\* max-age=N part of its Cache-Control when there is one, whatever the
\* other parts are, and no expiry when there is none.
C18_MaxAgeAsClaimed ==
    (req.kind = "resp" /\ req.status = 200 /\ ~CcNoStore(req.cc)
       /\ req.url \in DOMAIN store /\ store[req.url].stored = clock) =>
        LET good == {i \in 1..Len(req.cc) : Parseable(req.cc[i])}
        IN  IF good = {}
            THEN store[req.url].max_age = None
            ELSE \E i \in good :
                    store[req.url].max_age = Some(WindowOf(req.cc[i]))

\* what the code does: no expiry as soon as one part that begins with
\* max-age carries no number, else the number of the last such part
MaxAgeAsCoded ==
    (req.kind = "resp" /\ req.status = 200 /\ ~CcNoStore(req.cc)
       /\ req.url \in DOMAIN store /\ store[req.url].stored = clock) =>
        LET good == {i \in 1..Len(req.cc) : Parseable(req.cc[i])}
            bad == {i \in 1..Len(req.cc) : req.cc[i] \in {"max-age=x", "max-age"}}
        IN  IF good = {} \/ bad # {}
            THEN store[req.url].max_age = None
            ELSE \E i \in good :
                    /\ \A j \in good : j <= i
                    /\ store[req.url].max_age = Some(WindowOf(req.cc[i]))

\* C20: a connection whose response body was read until the peer closed
\* the stream is not in the connection pool after the request, whatever
\* the Connection header of the response says.
C20_EofNeverPooledAsClaimed ==
    (req.kind = "resp" /\ req.framing = "eof") =>
        \A a \in DOMAIN pool : pool[a] # req.sent_on

\* what the code does: the framing plays no part, a response without
\* Connection: close and without Proxy-Connection: close leaves its socket
\* in the pool
PooledUnlessClose ==
    (req.kind = "resp" /\ ~req.close) =>
        PoolGet(pool, AuthorityOf(req.url)) = req.sent_on

\* C21: body framing precedence.  For every combination of the
\* Transfer-Encoding and Content-Length headers of a response, its body is
\* read by chunked decoding when Transfer-Encoding is chunked in any
\* letter case, also when a Content-Length is there; otherwise over the
\* given length when Content-Length is there and is an integer; otherwise,
\* the header absent or no integer, until the end of the stream.
C21_FramingPrecedence ==
    req.kind = "resp" =>
        req.framing =
            IF req.te \in {"chunked", "Chunked"} THEN "chunked"
            ELSE IF req.cl = "2" THEN "length"
            ELSE "eof"

C21_Witness ==
    /\ req.kind = "resp"
    /\ req.te = "Chunked"
    /\ req.cl = "2"
    /\ req.framing = "chunked"

\* C22: cache keying.  A step creates or overwrites a cache entry only
\* under the resolved url of the request made in that step, with the body
\* that request returned, and that response is no redirect: after a chain
\* of redirects the body is stored under the url of the last hop and no
\* entry of any other url, the first or one on the way, is created or
\* changed.
C22_CacheKeying ==
    [][\A u \in DOMAIN store' :
          (u \notin DOMAIN store \/ store'[u] # store[u]) =>
              /\ pc = "transport"
              /\ u = url_to_fetch
              /\ u = url_to_fetch'
              /\ req'.url = u
              /\ ~IsRedirect(req'.status)
              /\ store'[u].body = req'.body
              /\ pc' = "idle"]_vars

C22_Witness ==
    /\ pc = "idle"
    /\ redirects >= 2
    /\ raw_url = <<"http://a/">>
    /\ req.url = "https://b/"
    /\ DOMAIN store = {"https://b/"}
    /\ store["https://b/"].body = req.body

\* C23: a fresh authority lookup on every hop.  The socket a request was
\* sent on was opened for the authority of that request's url (scheme, host
\* and port, the scheme's default port applied), also after a redirect that
\* changes scheme or host, and every socket the engine's pool holds is held
\* under the authority it was opened for.
C23_OwnAuthority ==
    /\ \A a \in DOMAIN pool : socks[pool[a]].auth = a
    /\ req.sent_on # 0 => socks[req.sent_on].auth = AuthorityOf(req.url)

C23_Witness ==
    /\ raw_url = <<"http://a/">>
    /\ redirects >= 1
    /\ req.url = "https://b/"
    /\ req.kind = "resp"
    /\ socks[req.sent_on].auth = <<"https", "b", DefaultHttpsPort>>
    /\ PoolGet(pool, <<"http", "a", DefaultHttpPort>>) # 0
    /\ PoolGet(pool, <<"http", "a", DefaultHttpPort>>) # req.sent_on

\* the code fields of the model that int() accepts
NumericFields == {"200", "301", "404"}

\* C24: a status line of two fields or more whose code field is no number
\* does not end the request.  The status is 0, the headers and the body
\* are read, and the fetch ends in the same step with that body handed
\* over, no redirect followed and the cache left as it was.
C24_NonNumericCode ==
    [][(nreq' = nreq + 1 /\ req'.kind = "resp"
          /\ req'.code \notin NumericFields) =>
          /\ req'.status = 0
          /\ req'.body # ""
          /\ pc' = "idle"
          /\ redirects' = redirects
          /\ url_to_fetch' = url_to_fetch
          /\ store' = store
          /\ IF view_source_mode
             THEN shown' = Some(Utf8Decode(req'.body))
             ELSE out' = Returned(Some(Utf8Decode(req'.body)), "")]_vars

C24_Witness ==
    /\ pc = "idle"
    /\ req.kind = "resp"
    /\ req.code = "OK"
    /\ req.status = 0
    /\ req.cc = <<"max-age=1">>
    /\ req.url \notin DOMAIN store
    /\ out = Returned(Some(Utf8Decode(req.body)), "")

\* every open connection is held by the pool
NoneLeaked ==
    \A s \in 1..Len(socks) :
        socks[s].open => \E a \in DOMAIN pool : pool[a] = s

\* C25: no connection leak, as the claim states it.  After a transport
\* request that returned, with a response or without one, or that met a bad
\* chunk size, every connection it opened is closed or held by the pool.
C25_NoLeakAsClaimed ==
    (req.kind \in {"resp", "none"} \/ req.why = "Bad chunk size") =>
        (req.connects > 0 => NoneLeaked)

\* every connection the pool holds is open
PooledAreOpen == \A a \in DOMAIN pool : socks[pool[a]].open

\* the last request went out on the pooled connection and its response
\* broke off: nothing before the status line, or a bad chunk size
FailedOnReused ==
    /\ req.pooled # 0
    /\ req.sent_on = req.pooled
    /\ req.why \in {"empty response", "Bad chunk size"}

\* the pool no longer gives the connection of the last request
Unpooled == PoolGet(pool, AuthorityOf(req.url)) # req.sent_on

\* C26: pooled connections are clean, as the claim states it.  Between two
\* fetch calls every connection the pool holds is open, and a reused
\* connection on which the response broke off is no longer in the pool.
C26_PoolCleanAsClaimed ==
    pc = "idle" => (PooledAreOpen /\ (FailedOnReused => Unpooled))

\* the url an engine is configured with, an engine built without one
\* counted as configured with the default file url
Configured(r) == IF r = None THEN <<DefaultFileUrl>> ELSE r

\* C27: fetch is repeatable, as the claim states it.  No step changes the
\* url the engine is configured with, and a fetch call that follows
\* another runs in the mode of the one before.
C27_FetchRepeatableAsClaimed ==
    [][/\ Configured(raw_url') = Configured(raw_url)
       /\ (pc = "idle" /\ out.kind # "never" /\ clock' = clock) =>
              view_source_mode' = view_source_mode]_vars

\* C28: scroll clamping.  On a loaded page, after every Down, Up,
\* mouse-wheel and resize handler the scroll offset is at least 0 and at
\* most max(0, doc_height - height).
C28_ScrollClamped ==
    renderer.pos = "loaded" =>
        /\ 0 <= renderer.scroll
        /\ renderer.scroll <= Max(0, renderer.doc_height - renderer.height)

C28_Witness ==
    /\ renderer.pos = "loaded"
    /\ renderer.width # WIDTH
    /\ renderer.scroll > 0
    /\ renderer.scroll = renderer.doc_height - renderer.height
    /\ renderer.scroll % SCROLL_STEP # 0

====
